---- MODULE Spec2Model ----
(***************************************************************************)
(* DoForMe: a command line tool that turns a natural-language prompt into  *)
(* a shell command through a hosted API, confirms it and runs it.          *)
(*                                                                         *)
(* The module models src/doforme/config.py (the credential store) and      *)
(* src/doforme/cli.py (main and its helpers).                              *)
(*                                                                         *)
(* Python values are tagged records: None, str (a sequence of one-letter   *)
(* strings), a provider id (a word), dict, int, list, tuple.  A call ends  *)
(* either returning a value or raising an exception.                       *)
(***************************************************************************)
EXTENDS Integers, Sequences, FiniteSets, TLC

VARIABLES
    file,       \* content of ~/.config/doforme/config.json
    mode,       \* permission bits of that file
    env,        \* os.environ restricted to the provider variables
    last,       \* StoreSpec: the most recent direct call of the store and its outcome
    saved,      \* StoreSpec: arguments of the most recent set_api_key that returned
    pc,         \* Spec: position of main
    args,       \* Spec: parsed command line (prompt, --dry-run, --yes)
    tty,        \* Spec: what the user would answer in the key set-up dialogue
    api_key,    \* Spec: main's local variable api_key
    command,    \* Spec: main's local variable command
    response,   \* Spec: what input() delivered at the confirmation prompt
    llmCalled,  \* Spec: get_command_from_llm was invoked in this run
    executed,   \* Spec: subprocess.run was invoked in this run
    child,      \* Spec: how subprocess.run ended
    result      \* Spec: how main ended (returned a status / raised)

storeVars == <<file, mode, env>>
callVars == <<last, saved>>
mainVars == <<pc, args, tty, api_key, command, response, llmCalled, executed, child, result>>
vars == <<file, mode, env, last, saved, pc, args, tty, api_key, command, response,
          llmCalled, executed, child, result>>

----------------------------------------------------------------------------
(* Bounds *)

\* longest secret that is typed, stored or found in the file
MaxKeyLen == 1

----------------------------------------------------------------------------
(* Python values *)

None == [t |-> "None"]
Str(s) == [t |-> "str", v |-> s]
Id(p) == [t |-> "id", v |-> p]
Tuple(a, b) == [t |-> "tuple", v |-> <<a, b>>]
Dict(d) == [t |-> "dict", d |-> d]
PyInt == [t |-> "int"]
PyList == [t |-> "list"]

\* marks a key that a dict does not hold
NoKey == [t |-> "nokey"]
EmptyDict == Dict([api_key |-> NoKey, provider |-> NoKey])

\* Python truth value: None, "" and () are false, every other value here is true
Truthy(x) ==
    CASE x.t = "None" -> FALSE
      [] x.t = "str" -> x.v # <<>>
      [] x.t = "id" -> x.v # ""
      [] x.t = "tuple" -> Len(x.v) > 0
      [] x.t = "dict" -> x.d.api_key # NoKey \/ x.d.provider # NoKey
      [] OTHER -> TRUE

Returned(v) == [exc |-> "none", val |-> v]
Raised(e) == [exc |-> e]

\* dict.get(key): None when the key is missing
DictGet(d, k) == IF d[k] = NoKey THEN None ELSE d[k]

----------------------------------------------------------------------------
(* Text *)

KeyChars == {"k", "K"}

RECURSIVE SeqsUpTo(_, _)
SeqsUpTo(S, n) ==
    IF n = 0 THEN {<<>>}
    ELSE LET shorter == SeqsUpTo(S, n - 1)
         IN shorter \cup {Append(s, c) : s \in {x \in shorter : Len(x) = n - 1}, c \in S}

\* the secrets of the model: non-empty texts over KeyChars
Keys == SeqsUpTo(KeyChars, MaxKeyLen) \ {<<>>}

\* str.lower(), letter by letter
LowerChar(c) ==
    CASE c = "K" -> "k"
      [] c = "Y" -> "y"
      [] c = "E" -> "e"
      [] c = "S" -> "s"
      [] c = "N" -> "n"
      [] c = "O" -> "o"
      [] OTHER -> c

Lower(s) == [i \in 1..Len(s) |-> LowerChar(s[i])]

RECURSIVE LStrip(_)
LStrip(s) == IF s # <<>> /\ Head(s) = " " THEN LStrip(Tail(s)) ELSE s

RECURSIVE RStrip(_)
RStrip(s) == IF s # <<>> /\ s[Len(s)] = " " THEN RStrip(SubSeq(s, 1, Len(s) - 1)) ELSE s

\* str.strip()
Strip(s) == RStrip(LStrip(s))

----------------------------------------------------------------------------
(* The credential store, config.py *)

\* PROVIDERS, in declaration order (dict order is insertion order)
ProviderOrder == <<"openai", "anthropic", "groq", "openrouter">>
ProviderIds == {ProviderOrder[i] : i \in 1..Len(ProviderOrder)}

\* what the config file can hold
NoFile == [kind |-> "absent"]
TextFile(s) == [kind |-> "text", s |-> s]       \* not JSON: a bare secret, garbage
JsonStr(s) == [kind |-> "jstr", s |-> s]        \* "sk-..." in quotes
JsonNum == [kind |-> "jnum"]
JsonList == [kind |-> "jlist"]
JsonNull == [kind |-> "jnull"]
JsonObj(d) == [kind |-> "object", d |-> d]

FieldKeys == {NoKey} \cup {Str(s) : s \in Keys \cup {<<>>}}
\* the provider field of a file found at the start: missing, empty, or an id
FieldProviders == {NoKey, Id(""), Id("openai"), Id("groq")}
Dicts == [api_key : FieldKeys, provider : FieldProviders]

Files ==
    {NoFile, JsonNum, JsonList, JsonNull}
    \cup {TextFile(s) : s \in Keys}
    \cup {JsonStr(s) : s \in Keys}
    \cup {JsonObj(d) : d \in Dicts}

\* permission bits: of no file, as created under the usual umask, owner-only
Modes == {"none", "0644", "0600"}

\* a load_config that hands back the text of an unparseable file as a str
load_config_legacy(f) ==
    CASE f.kind = "absent" -> EmptyDict
      [] f.kind = "text" -> Str(f.s)
      [] f.kind = "jstr" -> Str(f.s)
      [] f.kind = "jnum" -> PyInt
      [] f.kind = "jlist" -> PyList
      [] f.kind = "jnull" -> None
      [] OTHER -> Dict(f.d)

\* load_config: {} when the file is absent or json.load raises, else whatever
\* json.load returns, which is a dict only when the file holds a JSON object
load_config(f) ==
    CASE f.kind = "absent" -> EmptyDict
      [] f.kind = "text" -> EmptyDict
      [] f.kind = "jstr" -> Str(f.s)
      [] f.kind = "jnum" -> PyInt
      [] f.kind = "jlist" -> PyList
      [] f.kind = "jnull" -> None
      [] OTHER -> Dict(f.d)

\* the loop over PROVIDERS.items(): index of the first provider whose variable
\* holds a non-empty value, 0 when there is none
RECURSIVE EnvScan(_, _)
EnvScan(e, i) ==
    IF i > Len(ProviderOrder) THEN 0
    ELSE IF Truthy(e[ProviderOrder[i]]) THEN i
    ELSE EnvScan(e, i + 1)

\* get_api_key: config.get raises AttributeError on anything but a dict
get_api_key(f, e) ==
    LET config == load_config(f) IN
    IF config.t # "dict" THEN Raised("AttributeError")
    ELSE LET provider == DictGet(config.d, "provider")
             hit == EnvScan(e, 1)
         IN IF hit # 0
            THEN Returned(Tuple(e[ProviderOrder[hit]], Id(ProviderOrder[hit])))
            ELSE IF Truthy(provider) /\ config.d.api_key # NoKey
            THEN Returned(Tuple(config.d.api_key, provider))
            ELSE Returned(Tuple(None, None))

\* save_config: write the dict as JSON, then chmod 0600
save_config(d) == [file |-> JsonObj(d), mode |-> "0600"]

\* set_api_key: item assignment raises TypeError on anything but a dict, before
\* anything is written
set_api_key(f, m, key, provider) ==
    LET config == load_config(f) IN
    IF config.t # "dict"
    THEN [out |-> Raised("TypeError"), file |-> f, mode |-> m]
    ELSE LET d1 == [config.d EXCEPT !.api_key = key]
             d2 == IF Truthy(provider) THEN [d1 EXCEPT !.provider = provider] ELSE d1
             w == save_config(d2)
         IN [out |-> Returned(Str(<<"T">>)), file |-> w.file, mode |-> w.mode]

----------------------------------------------------------------------------
(* StoreSpec: the store called directly, any number of times *)

Unset == None
EnvValues == {Unset, Str(<<>>), Str(<<"e">>)}
Envs == [ProviderIds -> EnvValues]
NoEnv == [p \in ProviderIds |-> Unset]

FileModeOk(f, m) == IF f = NoFile THEN m = "none" ELSE m \in {"0644", "0600"}

NoCall == [op |-> "none"]
NotSaved == [key |-> None, provider |-> None, before |-> NoFile]

MainIdle ==
    /\ pc = "idle"
    /\ args = [prompt |-> [kind |-> "empty"], dry_run |-> FALSE, yes |-> FALSE]
    /\ tty = [choice |-> None, key |-> [ev |-> "line", text |-> <<>>]]
    /\ api_key = None
    /\ command = None
    /\ response = [ev |-> "none"]
    /\ llmCalled = FALSE
    /\ executed = FALSE
    /\ child = [kind |-> "none"]
    /\ result = [k |-> "running"]

StoreInit ==
    /\ file \in Files
    /\ mode \in Modes
    /\ FileModeOk(file, mode)
    /\ env \in Envs
    /\ last = NoCall
    /\ saved = NotSaved
    /\ MainIdle

SetArgsKeys == {Str(s) : s \in Keys}
SetArgsProviders == {None, Id("anthropic"), Id("groq")}

CallSet(key, provider) ==
    LET r == set_api_key(file, mode, key, provider) IN
    /\ file' = r.file
    /\ mode' = r.mode
    /\ last' = [op |-> "set", key |-> key, provider |-> provider, out |-> r.out]
    /\ saved' = IF r.out.exc = "none"
                THEN [key |-> key, provider |-> provider, before |-> file]
                ELSE saved
    /\ UNCHANGED <<env, mainVars>>

CallGet ==
    /\ last' = [op |-> "get", out |-> get_api_key(file, env)]
    /\ UNCHANGED <<file, mode, env, saved, mainVars>>

StoreNext ==
    \/ \E key \in SetArgsKeys, provider \in SetArgsProviders : CallSet(key, provider)
    \/ CallGet

StoreSpec == StoreInit /\ [][StoreNext]_vars

----------------------------------------------------------------------------
(* The command line tool, cli.py *)

\* the patterns of handle_set_api_key, in order: the verb and the word before
\* the key.  "(?:the )?" and "api[ _]?key" admit spellings that all match and
\* are not told apart here.
Patterns ==
    << [verb |-> "set", conn |-> "to"],
       [verb |-> "save", conn |-> "as"],
       [verb |-> "update", conn |-> "to"],
       [verb |-> "change", conn |-> "to"] >>

\* the prompt: no words, an ordinary request, or "<verb> the api key <conn> <x>"
\* with x the text the user typed for the key
EmptyPrompt == [kind |-> "empty"]
TaskPrompt == [kind |-> "task"]
SetKeyPrompt(verb, conn, x) == [kind |-> "setkey", verb |-> verb, conn |-> conn, x |-> x]

\* every matching form with every key, and one form no pattern matches
Prompts ==
    {EmptyPrompt, TaskPrompt}
    \cup {SetKeyPrompt(Patterns[i].verb, Patterns[i].conn, x) : i \in 1..Len(Patterns), x \in Keys}
    \cup {SetKeyPrompt("set", "as", <<"k">>)}

\* re.search(pattern, prompt.lower()) for the i-th pattern
PatternMatches(i, prompt) ==
    /\ prompt.kind = "setkey"
    /\ Patterns[i].verb = prompt.verb
    /\ Patterns[i].conn = prompt.conn

AnyPatternMatches(prompt) == \E i \in 1..Len(Patterns) : PatternMatches(i, prompt)

\* match.group(1).strip(), the group taken from the lower-cased prompt
MatchedKey(prompt) == Strip(Lower(prompt.x))

\* handle_set_api_key: on a match, set_api_key(api_key) with no provider
handle_set_api_key(f, m, prompt) ==
    IF AnyPatternMatches(prompt)
    THEN LET r == set_api_key(f, m, Str(MatchedKey(prompt)), None)
         IN [matched |-> TRUE, out |-> r.out, file |-> r.file, mode |-> r.mode]
    ELSE [matched |-> FALSE, out |-> Returned(None), file |-> f, mode |-> m]

\* one line read by input(), or the interrupt that ends the read
Line(s) == [ev |-> "line", text |-> s]
Interrupt == [ev |-> "interrupt"]

\* prompt_for_provider: a valid number picks a provider; anything that is not a
\* number, or Ctrl-C, gives None
BadChoice == [ev |-> "bad"]
Pick(p) == [ev |-> "pick", p |-> p]
prompt_for_provider(choice) == IF choice.ev = "pick" THEN Id(choice.p) ELSE None

\* prompt_for_api_key: (None, None) when no provider is picked or no key is
\* entered; the key entry's input() is not guarded against Ctrl-C
prompt_for_api_key(f, m, t) ==
    LET provider == prompt_for_provider(t.choice) IN
    IF ~Truthy(provider)
    THEN [out |-> Returned(Tuple(None, None)), file |-> f, mode |-> m]
    ELSE IF t.key.ev = "interrupt"
    THEN [out |-> Raised("KeyboardInterrupt"), file |-> f, mode |-> m]
    ELSE LET key == Str(Strip(t.key.text)) IN
         IF ~Truthy(key)
         THEN [out |-> Returned(Tuple(None, None)), file |-> f, mode |-> m]
         ELSE LET r == set_api_key(f, m, key, provider) IN
              IF r.out.exc # "none"
              THEN [out |-> r.out, file |-> r.file, mode |-> r.mode]
              ELSE [out |-> Returned(Tuple(key, provider)), file |-> r.file, mode |-> r.mode]

\* a command is a str, kept as its whitespace-separated words
Builtins == {"cd", "echo", "export", "set", "source", "alias"}
\* the executables shutil.which finds on this machine
OnPath == {"ls"}

\* check_tool_exists
check_tool_exists(cmd) ==
    LET parts == cmd.v IN
    IF parts = <<>> THEN TRUE
    ELSE IF parts[1] \in Builtins THEN TRUE
    ELSE parts[1] \in OnPath

\* what the hosted API call can do: answer with a text (already stripped of
\* fences), fail with an error that "except Exception" catches, or be
\* interrupted, which "except Exception" does not catch
Reply(words) == [ev |-> "reply", text |-> words]
ApiError == [ev |-> "error"]
Replies ==
    { Reply(<<>>), Reply(<<"cd", "/tmp">>), Reply(<<"ls", "-la">>),
      Reply(<<"nonexistent_binary_xyz", "--flag">>) }
LlmOutcomes == Replies \cup {ApiError, Interrupt}

\* get_command_from_llm
get_command_from_llm(outcome) ==
    CASE outcome.ev = "reply" -> Returned(Str(outcome.text))
      [] outcome.ev = "error" -> Returned(None)
      [] OTHER -> Raised("KeyboardInterrupt")

\* the answers given at "Execute this command? [Y/n]"
Answers ==
    { <<>>, <<" ">>, <<"y">>, <<" ", "Y", "E", "S", " ">>, <<"n">>, <<"N", "O">>, <<"y", "e">> }
ConfirmEvents == {Line(s) : s \in Answers} \cup {Interrupt}

\* a confirmation test without the default: only "y" and "yes" proceed
Proceeds_NoDefault(raw) ==
    LET r == Lower(Strip(raw)) IN r \in {<<"y">>, <<"y", "e", "s">>}

\* the test after input(): cancel when the answer, stripped and lower-cased,
\* is non-empty and neither "y" nor "yes"
Proceeds(raw) ==
    LET r == Lower(Strip(raw)) IN ~(Truthy(Str(r)) /\ r \notin {<<"y">>, <<"y", "e", "s">>})

\* how subprocess.run can end: the shell finishes with a return code, Ctrl-C
\* arrives during the wait, or the launch fails
Finished(code) == [kind |-> "exit", code |-> code]
ChildCodes == {0, 1, 2, 130, -9}
ChildOutcomes == {Finished(c) : c \in ChildCodes} \cup {[kind |-> "interrupt"], [kind |-> "oserror"]}

\* a status mapping that does not tell an interrupt from a failed launch
run_status_conflated(outcome) ==
    CASE outcome.kind = "exit" -> outcome.code
      [] OTHER -> 1

\* the try / except around subprocess.run
run_status(outcome) ==
    CASE outcome.kind = "exit" -> outcome.code
      [] outcome.kind = "interrupt" -> 130
      [] OTHER -> 1

----------------------------------------------------------------------------
(* Spec: runs of main, one after another, over the same config file *)

MainEnvs ==
    { NoEnv,
      [NoEnv EXCEPT !["groq"] = Str(<<"e">>)],
      [NoEnv EXCEPT !["openai"] = Str(<<>>), !["anthropic"] = Str(<<"e">>)] }

Dialogues ==
    { [choice |-> BadChoice, key |-> Line(<<>>)],
      [choice |-> Pick("groq"), key |-> Line(<<>>)],
      [choice |-> Pick("groq"), key |-> Line(<<"k">>)] }

Init ==
    /\ file \in Files
    /\ mode \in Modes
    /\ FileModeOk(file, mode)
    /\ env \in MainEnvs
    /\ last = NoCall
    /\ saved = NotSaved
    /\ MainIdle

Exited(code) == [k |-> "returned", code |-> code]
Crashed(e) == [k |-> "raised", exc |-> e]

\* the process starts: argparse has the prompt and the flags
Invoke(prompt, dry_run, yes, dialogue) ==
    /\ pc = "idle"
    /\ pc' = "main"
    /\ args' = [prompt |-> prompt, dry_run |-> dry_run, yes |-> yes]
    /\ tty' = dialogue
    /\ UNCHANGED <<storeVars, callVars, api_key, command, response, llmCalled, executed,
                   child, result>>

\* sys.exit(main()): the process ends, only the config file outlives it
Exit ==
    /\ pc = "done"
    /\ pc' = "idle"
    /\ args' = [prompt |-> [kind |-> "empty"], dry_run |-> FALSE, yes |-> FALSE]
    /\ tty' = [choice |-> None, key |-> [ev |-> "line", text |-> <<>>]]
    /\ api_key' = None
    /\ command' = None
    /\ response' = [ev |-> "none"]
    /\ llmCalled' = FALSE
    /\ executed' = FALSE
    /\ child' = [kind |-> "none"]
    /\ result' = [k |-> "running"]
    /\ UNCHANGED <<storeVars, callVars>>

\* main, lines 123-133: no prompt, or the in-band set-key command
Start ==
    /\ pc = "main"
    /\ LET h == handle_set_api_key(file, mode, args.prompt) IN
       IF args.prompt.kind = "empty"
       THEN /\ result' = Exited(1)
            /\ pc' = "done"
            /\ UNCHANGED <<file, mode>>
       ELSE IF h.out.exc # "none"
       THEN /\ result' = Crashed(h.out.exc)
            /\ pc' = "done"
            /\ UNCHANGED <<file, mode>>
       ELSE IF h.matched
       THEN /\ file' = h.file
            /\ mode' = h.mode
            /\ result' = Exited(0)
            /\ pc' = "done"
       ELSE /\ pc' = "credentials"
            /\ UNCHANGED <<file, mode, result>>
    /\ UNCHANGED <<env, callVars, args, tty, api_key, command, response, llmCalled,
                   executed, child>>

\* main, lines 135-142: api_key = get_api_key(), a tuple; prompt_for_api_key
\* when "not api_key"
Credentials ==
    /\ pc = "credentials"
    /\ LET g == get_api_key(file, env) IN
       IF g.exc # "none"
       THEN /\ result' = Crashed(g.exc)
            /\ pc' = "done"
            /\ UNCHANGED <<file, mode, api_key>>
       ELSE IF Truthy(g.val)
       THEN /\ api_key' = g.val
            /\ pc' = "synthesize"
            /\ UNCHANGED <<file, mode, result>>
       ELSE LET p == prompt_for_api_key(file, mode, tty) IN
            /\ file' = p.file
            /\ mode' = p.mode
            /\ IF p.out.exc # "none"
               THEN /\ result' = Crashed(p.out.exc)
                    /\ pc' = "done"
                    /\ UNCHANGED api_key
               ELSE IF ~Truthy(p.out.val)
               THEN /\ api_key' = p.out.val
                    /\ result' = Exited(1)
                    /\ pc' = "done"
               ELSE /\ api_key' = p.out.val
                    /\ pc' = "synthesize"
                    /\ UNCHANGED result
    /\ UNCHANGED <<env, callVars, args, tty, command, response, llmCalled, executed, child>>

\* main, lines 144-147: the hosted API call
Synthesize(outcome) ==
    /\ pc = "synthesize"
    /\ llmCalled' = TRUE
    /\ LET r == get_command_from_llm(outcome) IN
       IF r.exc # "none"
       THEN /\ result' = Crashed(r.exc)
            /\ pc' = "done"
            /\ UNCHANGED command
       ELSE /\ command' = r.val
            /\ IF ~Truthy(r.val)
               THEN /\ result' = Exited(1)
                    /\ pc' = "done"
               ELSE /\ pc' = "toolcheck"
                    /\ UNCHANGED result
    /\ UNCHANGED <<storeVars, callVars, args, tty, api_key, response, executed, child>>

\* main, lines 151-163: the tool check, then dry-run, then --yes
ToolCheck ==
    /\ pc = "toolcheck"
    /\ IF ~check_tool_exists(command)
       THEN /\ result' = Exited(1)
            /\ pc' = "done"
       ELSE IF args.dry_run
       THEN /\ result' = Exited(0)
            /\ pc' = "done"
       ELSE IF ~args.yes
       THEN /\ pc' = "confirm"
            /\ UNCHANGED result
       ELSE /\ pc' = "execute"
            /\ UNCHANGED result
    /\ UNCHANGED <<storeVars, callVars, args, tty, api_key, command, response, llmCalled,
                   executed, child>>

\* main, lines 164-167: the confirmation prompt; its input() is not guarded
Confirm(event) ==
    /\ pc = "confirm"
    /\ response' = event
    /\ IF event.ev = "interrupt"
       THEN /\ result' = Crashed("KeyboardInterrupt")
            /\ pc' = "done"
       ELSE IF ~Proceeds(event.text)
       THEN /\ result' = Exited(0)
            /\ pc' = "done"
       ELSE /\ pc' = "execute"
            /\ UNCHANGED result
    /\ UNCHANGED <<storeVars, callVars, args, tty, api_key, command, llmCalled, executed, child>>

\* main, lines 169-184: subprocess.run and the mapping of how it ends
Execute(outcome) ==
    /\ pc = "execute"
    /\ executed' = TRUE
    /\ child' = outcome
    /\ result' = Exited(run_status(outcome))
    /\ pc' = "done"
    /\ UNCHANGED <<storeVars, callVars, args, tty, api_key, command, response, llmCalled>>

Next ==
    \/ \E prompt \in Prompts, dry_run \in BOOLEAN, yes \in BOOLEAN, dialogue \in Dialogues :
          Invoke(prompt, dry_run, yes, dialogue)
    \/ Start
    \/ Credentials
    \/ \E outcome \in LlmOutcomes : Synthesize(outcome)
    \/ ToolCheck
    \/ \E event \in ConfirmEvents : Confirm(event)
    \/ \E outcome \in ChildOutcomes : Execute(outcome)
    \/ Exit

Spec == Init /\ [][Next]_vars

----------------------------------------------------------------------------
(* Properties of the credential store, checked under StoreSpec *)

\* the config file is one load_config turns into a dict
Usable(f) == load_config(f).t = "dict"

\* C3: after set_api_key(secret, provider), whatever the file held before, the
\* call has returned, the file is owner-only (0600) and, with no provider
\* variable set, get_api_key returns exactly (secret, provider).
C3_RoundTrip ==
    /\ (last.op = "set" /\ Truthy(last.provider)) =>
          /\ last.out.exc = "none"
          /\ mode = "0600"
    /\ (last.op = "get" /\ Truthy(saved.provider) /\ env = NoEnv) =>
          last.out = Returned(Tuple(saved.key, saved.provider))

\* C4, as claimed: with no provider variable set, a config file holding a bare
\* secret is read by get_api_key as that secret, without raising.
C4_LegacyReadable ==
    (last.op = "get" /\ file.kind = "text" /\ env = NoEnv) =>
        /\ last.out.exc = "none"
        /\ last.out.val.v[1] = Str(file.s)

\* C4, amended: with no provider variable set, a config file holding a bare
\* secret (text that is not JSON) makes get_api_key return the not-found
\* result (None, None), without raising.
C4_LegacyTreatedAsAbsent ==
    (last.op = "get" /\ file.kind = "text" /\ env = NoEnv) =>
        last.out = Returned(Tuple(None, None))

C4_Witness ==
    /\ last.op = "get"
    /\ file = TextFile(<<"K">>)
    /\ env = NoEnv
    /\ last.out.exc = "none"

\* C5: whatever the config file holds, get_api_key and set_api_key do not
\* raise, and get_api_key answers on an unusable file as it does on no file.
C5_NeverRaises ==
    /\ last.op \in {"get", "set"} => last.out.exc = "none"
    /\ (last.op = "get" /\ file.kind # "object") => last.out = get_api_key(NoFile, env)

\* the first provider, in declaration order, whose variable is set and non-empty
FirstSet(e) ==
    {i \in 1..Len(ProviderOrder) :
        /\ e[ProviderOrder[i]] \notin {Unset, Str(<<>>)}
        /\ \A j \in 1..(i - 1) : e[ProviderOrder[j]] \in {Unset, Str(<<>>)}}

\* C6: for every environment and every file content, get_api_key returns the
\* value and id of the first provider whose variable is set and non-empty; the
\* persisted record is returned only when there is none.
C6_LookupOrder ==
    last.op = "get" =>
        /\ \A i \in FirstSet(env) :
              last.out = Returned(Tuple(env[ProviderOrder[i]], Id(ProviderOrder[i])))
        /\ ( /\ last.out.exc = "none"
             /\ file.kind = "object"
             /\ last.out.val = Tuple(file.d.api_key, file.d.provider) ) => FirstSet(env) = {}

\* C10: set_api_key(secret) with no provider replaces the secret and keeps the
\* provider the file had; and afterwards, with no provider variable set,
\* get_api_key returns that secret, also when the file had no provider before.
C10_SavedKeyFound ==
    /\ (last.op = "set" /\ last.provider = None /\ last.out.exc = "none") =>
          /\ file.kind = "object"
          /\ file.d.api_key = last.key
          /\ file.d.provider = load_config(saved.before).d.provider
    /\ (last.op = "get" /\ saved.key # None /\ saved.provider = None /\ env = NoEnv) =>
          /\ last.out.exc = "none"
          /\ last.out.val.v[1] = saved.key

----------------------------------------------------------------------------
(* Properties of main, checked under Spec *)

Done == pc = "done"

\* the user declines the set-up dialogue: prompt_for_api_key gives (None, None)
Declines == prompt_for_api_key(file, mode, tty).out = Returned(Tuple(None, None))

\* C1: a run with an ordinary prompt, no credential in the environment or the
\* file and a user who declines the set-up returns 1 and never calls
\* get_command_from_llm.
C1_FailFast ==
    ( /\ Done
      /\ result.k = "returned"
      /\ args.prompt.kind = "task"
      /\ get_api_key(file, env) = Returned(Tuple(None, None))
      /\ Declines ) =>
        /\ result = Exited(1)
        /\ ~llmCalled

\* C2: a run whose prompt matches a set-key pattern with key text x stores
\* exactly x as the secret, returns 0 and never calls get_command_from_llm.
\* (Stated for usable config files, where set_api_key does not raise.)
C2_SetKeyVerbatim ==
    ( /\ Done
      /\ AnyPatternMatches(args.prompt)
      /\ Usable(file) ) =>
        /\ result = Exited(0)
        /\ file.kind = "object"
        /\ file.d.api_key = Str(args.prompt.x)
        /\ ~llmCalled

\* an answer that lets the command run: trimmed and lower-cased it is empty,
\* "y" or "yes"
Accepts(raw) == Lower(Strip(raw)) \in {<<>>, <<"y">>, <<"y", "e", "s">>}

Gate ==
    /\ Truthy(command)
    /\ check_tool_exists(command)
    /\ ~args.dry_run
    /\ \/ args.yes
       \/ response.ev = "line" /\ Accepts(response.text)

\* C7: the command is passed to subprocess.run only when the gate holds, and
\* a finished run has executed it exactly when the gate holds.  Otherwise, in
\* the order main tests them: a synthesis failure returns 1, a missing tool
\* returns 1, dry-run returns 0, any other answer returns 0.
C7_ExecutionGating ==
    /\ executed => Gate
    /\ pc = "execute" => Gate
    /\ Done => (executed <=> Gate)
    /\ (Done /\ llmCalled /\ result.k = "returned" /\ ~Truthy(command)) => result = Exited(1)
    /\ (Done /\ Truthy(command) /\ ~check_tool_exists(command)) => result = Exited(1)
    /\ (Done /\ Truthy(command) /\ check_tool_exists(command) /\ args.dry_run) =>
          result = Exited(0)
    /\ ( /\ Done
         /\ Truthy(command)
         /\ check_tool_exists(command)
         /\ ~args.dry_run
         /\ ~args.yes
         /\ response.ev = "line"
         /\ ~Accepts(response.text) ) => result = Exited(0)

C7_Witness ==
    /\ Done
    /\ executed
    /\ ~args.yes
    /\ response = Line(<<>>)

\* C8: a run that reached subprocess.run returns the child's return code when
\* the child finished, 130 when the wait was interrupted, 1 when the launch
\* failed, and nothing else.
C8_ExitStatus ==
    (Done /\ executed) =>
        /\ child.kind = "exit" => result = Exited(child.code)
        /\ child.kind = "interrupt" => result = Exited(130)
        /\ child.kind = "oserror" => result = Exited(1)
        /\ child.kind \in {"exit", "interrupt", "oserror"}

C8_Witness ==
    /\ Done
    /\ executed
    /\ child = [kind |-> "interrupt"]

\* C9: with a usable config file, main always ends by returning 0, 1, 130 or
\* the child's status; no exception leaves main.
C9_NoUnhandledFault ==
    (Done /\ Usable(file)) =>
        /\ result.k = "returned"
        /\ result.code \in {0, 1, 130} \cup ChildCodes

====
